---- MODULE Spec2Model ----
(***************************************************************************)
(* Model of the pub/sub adapter layer of pubsublib-python.                 *)
(*                                                                         *)
(* Two adapter implementations are modelled side by side:                  *)
(*   "pubsublib"     src/pubsublib/aws/main.py                             *)
(*   "orangehealth"  src/pubsublib_python_orangehealth/aws/main.py         *)
(*                                                                         *)
(* The consumer side (poll_message_from_queue) runs against a model of the *)
(* queue transport (receive / delete / visibility timeout); the producer   *)
(* side (publish_message) runs against a model of the topic transport and  *)
(* of the cache adapter.                                                   *)
(***************************************************************************)
EXTENDS Integers, Sequences, FiniteSets, Bags, TLC

VARIABLES
    queue,   \* transport: per message its state, queue URL, receive count
    pc,      \* per consumer: position inside poll_message_from_queue
    impl,    \* per consumer: adapter implementation of the running poll
    url,     \* per consumer: sqs_queue_url of the running poll
    batch,   \* per consumer: recieved_message['Messages'] of the running poll
    idx,     \* per consumer: position of the for loop in the batch
    trace,   \* per consumer: calls made by the running poll, in order
    last,    \* the poll that ended most recently: its calls and its outcome
    faults,  \* number of adverse events so far (bounded)
    call,      \* the publish call made most recently: inputs, calls, outcome
    cacheLog,  \* every cache_adapter.set call made so far, in order
    uuidCount, \* number of keys uuid.uuid4() has generated
    nextMsgId, \* number of message ids the topic transport has assigned
    pubCount,  \* number of publish calls made (bounded)
    admin,     \* the create call made most recently: inputs, calls, outcome
    resources, \* transport: the topics and queues that exist
    adminCount, \* number of create calls made (bounded)
    codec      \* codec: the inputs of a call and, once made, its results

pollVars == <<queue, pc, impl, url, batch, idx, trace, last, faults>>

pubVars == <<call, cacheLog, uuidCount, nextMsgId, pubCount>>

adminVars == <<admin, resources, adminCount>>

codecVars == <<codec>>

vars == <<queue, pc, impl, url, batch, idx, trace, last, faults,
          call, cacheLog, uuidCount, nextMsgId, pubCount,
          admin, resources, adminCount, codec>>

----------------------------------------------------------------------------
(* Bounds *)

MaxMsgs == 2      \* messages that ever arrive in the queues
MaxFaults == 1    \* adverse events: handler failure, corruption, transport
                  \* error, visibility timeout elapsing during processing
MaxBatch == 2     \* messages returned by one receive call
MaxPublishes == 2 \* publish calls
MaxCreates == 2   \* create calls
MaxLen == 3       \* bytes of a codec input

Msgs == 1..MaxMsgs
Consumers == {"c1", "c2"}
Adapters == {"pubsublib", "orangehealth"}
QueueUrls == {"qA", "qB"}

----------------------------------------------------------------------------
(* Received messages *)

\* content hash of a body (stands for the MD5 digest of the body)
MD5(body) == (body * 7 + 3) % 11

\* a digest that does not belong to the body it travels with
Corrupted(digest) == (digest + 1) % 11

BodyOf(m) == m + 10

ReceiptHandleOf(m, n) == [m |-> m, n |-> n]

\* one entry of the receive response's 'Messages' list
ReceivedMessage(m, n, corrupt) ==
    [MessageId     |-> m,
     ReceiptHandle |-> ReceiptHandleOf(m, n),
     Body          |-> BodyOf(m),
     MD5OfBody     |-> IF corrupt THEN Corrupted(MD5(BodyOf(m)))
                                  ELSE MD5(BodyOf(m))]

\* helper: recompute the checksum of the body, compare with the supplied one
is_message_integrity_verified(body, md5_of_body) == MD5(body) = md5_of_body

IntegrityFailure_inverted(a, message) ==
    /\ a = "pubsublib"
    /\ is_message_integrity_verified(message.Body, message.MD5OfBody)

IntegrityFailure_unchecked(a, message) == FALSE

\* the adapter's guard in front of the handler
IntegrityFailure(a, message) ==
    /\ a = "pubsublib"
    /\ ~ is_message_integrity_verified(message.Body, message.MD5OfBody)

\* values a handler may return; `if processing_result:` tests truthiness
HandlerReturns == {"True", "False", "None"}

Truthy(v) == v = "True"

ShouldDelete_always(processing_result) == TRUE

ShouldDelete_never(processing_result) == FALSE

\* `if processing_result:` in front of the delete call
ShouldDelete(processing_result) == Truthy(processing_result)

DeleteRequest_byMessageId(sqs_queue_url, message) ==
    [QueueUrl |-> sqs_queue_url,
     ReceiptHandle |-> ReceiptHandleOf(message.MessageId, 0)]

\* the arguments of sqs_client.delete_message
DeleteRequest(sqs_queue_url, message) ==
    [QueueUrl |-> sqs_queue_url, ReceiptHandle |-> message.ReceiptHandle]

\* what poll returns when the loop is over
PollReturn(a) == IF a = "pubsublib" THEN "ret_response" ELSE "ret_message"

\* what poll does when the response has no 'Messages'
PollEmpty(a) == IF a = "pubsublib" THEN "ret_response"
                                   ELSE "exc_UnboundLocalError"

----------------------------------------------------------------------------
(* Sequences of distinct messages *)

RECURSIVE SeqsOver(_, _)
SeqsOver(S, n) ==
    IF n = 0 THEN {<<>>}
    ELSE LET shorter == SeqsOver(S, n - 1)
         IN shorter \cup
            {Append(s, x) : s \in {t \in shorter : Len(t) = n - 1},
                            x \in S}

DistinctSeqs(S, n) ==
    {s \in SeqsOver(S, n) : \A i, j \in 1..Len(s) : i # j => s[i] # s[j]}

Range(s) == {s[i] : i \in 1..Len(s)}

----------------------------------------------------------------------------
(* Initial state *)

NoHandle == ReceiptHandleOf(0, 0)

Event(ev, rh, out) == [ev |-> ev, rh |-> rh, out |-> out]

NoPoll == [impl |-> "none", url |-> "none", batch |-> <<>>, trace |-> <<>>,
           result |-> "none"]

PollInit ==
    /\ queue = [m \in Msgs |-> [st |-> "unsent", url |-> "none", rc |-> 0]]
    /\ pc = [c \in Consumers |-> "idle"]
    /\ impl = [c \in Consumers |-> "none"]
    /\ url = [c \in Consumers |-> "none"]
    /\ batch = [c \in Consumers |-> <<>>]
    /\ idx = [c \in Consumers |-> 0]
    /\ trace = [c \in Consumers |-> <<>>]
    /\ last = NoPoll
    /\ faults = 0

----------------------------------------------------------------------------
(* Queue transport *)

\* the queue that is subscribed to the topic; the other queue stays empty
SubscribedQueue == "qA"

\* a message reaches the subscribed queue (fan-out from the topic)
SendMessage(m) ==
    /\ queue[m].st = "unsent"
    /\ \A k \in Msgs : k < m => queue[k].st # "unsent"
    /\ queue' = [queue EXCEPT ![m] = [st |-> "visible", url |-> SubscribedQueue,
                                     rc |-> 0]]
    /\ UNCHANGED <<pc, impl, url, batch, idx, trace, last, faults>>
    /\ UNCHANGED <<pubVars, adminVars, codecVars>>

\* a consumer still has to process this delivery of m
Held(m) ==
    \E c \in Consumers :
        /\ pc[c] \in {"loop", "delete"}
        /\ \E i \in idx[c]..Len(batch[c]) :
              batch[c][i].ReceiptHandle = ReceiptHandleOf(m, queue[m].rc)

\* the visibility timeout of a received message elapses
VisibilityTimeout(m) ==
    /\ queue[m].st = "inflight"
    /\ IF Held(m)
       THEN faults < MaxFaults /\ faults' = faults + 1
       ELSE faults' = faults
    /\ queue' = [queue EXCEPT ![m].st = "visible"]
    /\ UNCHANGED <<pc, impl, url, batch, idx, trace, last>>
    /\ UNCHANGED <<pubVars, adminVars, codecVars>>

\* effect of delete_message on the queue: only the most recently issued
\* receipt handle of a message still in the queue deletes it
QueueAfterDelete(q, req) ==
    LET m == req.ReceiptHandle.m IN
    IF /\ q[m].st \in {"visible", "inflight"}
       /\ q[m].url = req.QueueUrl
       /\ q[m].rc = req.ReceiptHandle.n
    THEN [q EXCEPT ![m].st = "deleted"]
    ELSE q

----------------------------------------------------------------------------
(* poll_message_from_queue *)

\* the poll of consumer c ends: with a return value or with an exception
Finish(c, a, q, b, tr, res) ==
    /\ last' = [impl |-> a, url |-> q, batch |-> b, trace |-> tr, result |-> res]
    /\ pc' = [pc EXCEPT ![c] = "idle"]
    /\ impl' = [impl EXCEPT ![c] = "none"]
    /\ url' = [url EXCEPT ![c] = "none"]
    /\ batch' = [batch EXCEPT ![c] = <<>>]
    /\ idx' = [idx EXCEPT ![c] = 0]
    /\ trace' = [trace EXCEPT ![c] = <<>>]

\* the transport client raises ClientError inside a call
TransportRaised(tr, rh) == Append(tr, Event("raised", rh, "ClientError"))

\* a ClientError in a poll: pubsublib logs it and raises it again, the
\* orangehealth poll has no handler for it
PollOnClientError(a) == "exc_ClientError"

PollOnIntegrityFailure_returned(a) == PollReturn(a)

\* the ValueError of the integrity guard is not a ClientError: no except
\* clause takes it
PollOnIntegrityFailure(a) == "exc_ValueError"

PollOnHandlerRaise_swallowed(a) == PollReturn(a)

\* an exception of the handler: nothing in the loop catches it (pubsublib
\* catches ClientError only, and raises that again)
PollOnHandlerRaise(a) == "exc_Handler"

MessageAt_reversed(b, i) == b[Len(b) + 1 - i]

\* `for message in recieved_message['Messages']`: the i-th iteration takes
\* the i-th message of the response
MessageAt(b, i) == b[i]

NextPosition_retry(i, processing_result) ==
    IF Truthy(processing_result) THEN i + 1 ELSE i

\* the loop moves on to the next message whatever the handler returned
NextPosition(i, processing_result) == i + 1

\* after message idx: next iteration, or the end of the loop
Advance(c, tr, processing_result) ==
    IF NextPosition(idx[c], processing_result) <= Len(batch[c])
    THEN /\ idx' = [idx EXCEPT ![c] = NextPosition(idx[c], processing_result)]
         /\ pc' = [pc EXCEPT ![c] = "loop"]
         /\ trace' = [trace EXCEPT ![c] = tr]
         /\ UNCHANGED <<impl, url, batch, last>>
    ELSE Finish(c, impl[c], url[c], batch[c], tr, PollReturn(impl[c]))

\* the receive call of a poll and the test for 'Messages'
ReceiveMessage(c, a, q) ==
    /\ pc[c] = "idle"
    /\ UNCHANGED <<pubVars, adminVars, codecVars>>
    /\ LET tr == <<Event("receive", NoHandle, "")>> IN
       \/ \* the transport fails
          /\ faults < MaxFaults
          /\ faults' = faults + 1
          /\ Finish(c, a, q, <<>>, TransportRaised(tr, NoHandle),
                    PollOnClientError(a))
          /\ UNCHANGED queue
       \/ \* the transport answers with up to MaxBatch visible messages
          \E ms \in DistinctSeqs({m \in Msgs : queue[m].st = "visible"
                                              /\ queue[m].url = q}, MaxBatch) :
          \E bad \in SUBSET Range(ms) :
             \* every delivery left unacknowledged takes one failing outcome,
             \* so a message is received at most MaxFaults + 1 times
             /\ \A m \in Range(ms) : queue[m].rc <= MaxFaults
             /\ faults + Cardinality(bad) <= MaxFaults
             /\ faults' = faults + Cardinality(bad)
             /\ queue' = [m \in Msgs |->
                            IF m \in Range(ms)
                            THEN [queue[m] EXCEPT !.st = "inflight",
                                                  !.rc = queue[m].rc + 1]
                            ELSE queue[m]]
             /\ IF Len(ms) > 0
                THEN /\ impl' = [impl EXCEPT ![c] = a]
                     /\ url' = [url EXCEPT ![c] = q]
                     /\ batch' = [batch EXCEPT ![c] =
                                    [i \in 1..Len(ms) |->
                                       ReceivedMessage(ms[i], queue[ms[i]].rc + 1,
                                                       ms[i] \in bad)]]
                     /\ idx' = [idx EXCEPT ![c] = 1]
                     /\ pc' = [pc EXCEPT ![c] = "loop"]
                     /\ trace' = [trace EXCEPT ![c] = tr]
                     /\ last' = last
                ELSE Finish(c, a, q, <<>>, tr, PollEmpty(a))

\* what a call of the handler can do: return a value or raise
HandlerOutcomes == HandlerReturns \cup {"raise"}

\* one iteration of the for loop up to the handler's return, for one outcome
\* of the handler; a failing outcome is charged to the fault budget or not
Iteration(c, outcome, charged) ==
    /\ pc[c] = "loop"
    /\ UNCHANGED <<pubVars, adminVars, codecVars>>
    /\ LET message == MessageAt(batch[c], idx[c])
           rh == message.ReceiptHandle
           checked == IF impl[c] = "pubsublib"
                      THEN Append(trace[c], Event("check", rh, ""))
                      ELSE trace[c]
           tr == Append(checked, Event("handler", rh, outcome))
       IN
       IF IntegrityFailure(impl[c], message)
       THEN /\ Finish(c, impl[c], url[c], batch[c], checked,
                      PollOnIntegrityFailure(impl[c]))
            /\ faults' = faults
       ELSE
         /\ IF charged /\ ~ Truthy(outcome)
            THEN faults < MaxFaults /\ faults' = faults + 1
            ELSE faults' = faults
         /\ IF outcome = "raise"
            THEN Finish(c, impl[c], url[c], batch[c], tr,
                        PollOnHandlerRaise(impl[c]))
            ELSE IF ShouldDelete(outcome)
            THEN /\ pc' = [pc EXCEPT ![c] = "delete"]
                 /\ trace' = [trace EXCEPT ![c] = tr]
                 /\ UNCHANGED <<impl, url, batch, idx, last>>
            ELSE Advance(c, tr, outcome)
    /\ UNCHANGED queue

\* an iteration whose handler may fail as long as the fault budget lasts
ProcessMessage(c) ==
    \E outcome \in HandlerOutcomes : Iteration(c, outcome, TRUE)

\* the delete_message call of an iteration
DeleteMessage(c) ==
    /\ pc[c] = "delete"
    /\ UNCHANGED <<pubVars, adminVars, codecVars>>
    /\ LET message == MessageAt(batch[c], idx[c])
           req == DeleteRequest(url[c], message)
           tr == Append(trace[c], Event("delete", req.ReceiptHandle, req.QueueUrl))
       IN
       \/ \* the transport fails
          /\ faults < MaxFaults
          /\ faults' = faults + 1
          /\ Finish(c, impl[c], url[c], batch[c],
                    TransportRaised(tr, req.ReceiptHandle),
                    PollOnClientError(impl[c]))
          /\ UNCHANGED queue
       \/ /\ queue' = QueueAfterDelete(queue, req)
          /\ faults' = faults
          /\ Advance(c, tr, "True")

\* the adapter a consumer runs when both adapters are given one response
AdapterOf(c) == IF c = "c1" THEN "pubsublib" ELSE "orangehealth"

\* the receive calls of two polls, one of each adapter, on queue q are
\* answered with the same non-empty response
ReceiveSameResponse(q, ms, bad) ==
    /\ \A c \in Consumers : pc[c] = "idle"
    /\ last = NoPoll
    /\ Len(ms) > 0
    /\ \A m \in Range(ms) : queue[m].st = "visible" /\ queue[m].url = q
    /\ bad \subseteq Range(ms)
    /\ queue' = [m \in Msgs |->
                   IF m \in Range(ms)
                   THEN [queue[m] EXCEPT !.st = "inflight",
                                         !.rc = queue[m].rc + 1]
                   ELSE queue[m]]
    /\ impl' = [c \in Consumers |-> AdapterOf(c)]
    /\ url' = [c \in Consumers |-> q]
    /\ batch' = [c \in Consumers |->
                   [i \in 1..Len(ms) |->
                      ReceivedMessage(ms[i], queue[ms[i]].rc + 1, ms[i] \in bad)]]
    /\ idx' = [c \in Consumers |-> 1]
    /\ pc' = [c \in Consumers |-> "loop"]
    /\ trace' = [c \in Consumers |-> <<Event("receive", NoHandle, "")>>]
    /\ UNCHANGED <<last, faults>>
    /\ UNCHANGED <<pubVars, adminVars, codecVars>>

\* an iteration of one of the two polls; the handler fails as it likes
ProcessEither(c) ==
    \E outcome \in HandlerOutcomes : Iteration(c, outcome, FALSE)

----------------------------------------------------------------------------
(* Publisher: helpers, cache adapter and topic transport *)

\* helper: the offload threshold of 200 KB
LargeMessageThreshold == 200 * 1024

\* a body is its text and its serialized size in bytes
Bodies == [text : {"payload"},
           size : {100, LargeMessageThreshold, LargeMessageThreshold + 1}]

is_large_message(message) == message.size > LargeMessageThreshold

\* attribute values carry their Python type
StrValue(v) == [type |-> "str", v |-> v]
BytesValue(v) == [type |-> "bytes", v |-> v]
IntValue(v) == [type |-> "int", v |-> v]
UuidObject(v) == [type |-> "uuid", v |-> v]

\* attribute mappings a caller passes
AttributeMappings ==
    { [k \in {} |-> StrValue("")],
      [k \in {"k1"} |-> StrValue("a")],
      [k \in {"k1"} |-> IntValue("1")],
      [k \in {"k1", "k2"} |-> IF k = "k1" THEN StrValue("a") ELSE BytesValue("b")],
      [k \in {"k1", "k2"} |-> IF k = "k1" THEN StrValue("a") ELSE IntValue("1")] }

\* helper: every value is a string or binary
validate_message_attributes(attributes) ==
    \A k \in DOMAIN attributes : attributes[k].type \in {"str", "bytes"}

\* helper: the transport's typed wire representation of each attribute
bind_attributes(attributes) ==
    [k \in DOMAIN attributes |->
        IF attributes[k].type = "bytes"
        THEN [DataType |-> "Binary", Value |-> attributes[k].v]
        ELSE [DataType |-> "String", Value |-> attributes[k].v]]

\* uuid.uuid4(): the n-th generated key
Uuid4(n) == n

OffloadTTL_hours == 10 * 24

\* TTL in minutes of an offloaded body: 10 days
OffloadTTL == 10 * 24 * 60

\* attributes["redis_key"] = redis_key
Inject(attributes, redis_key) ==
    [k \in DOMAIN attributes \cup {"redis_key"} |->
        IF k = "redis_key" THEN UuidObject(redis_key) ELSE attributes[k]]

\* the offload block: what it leaves in the attributes, the calls it makes
Offload(message, attributes, redis_key) ==
    IF is_large_message(message)
    THEN [attributes |-> Inject(attributes, redis_key),
          events |-> <<"uuid4", "inject", "cache.set">>,
          cacheCalls |-> <<[key |-> redis_key, value |-> message,
                            ttl |-> OffloadTTL]>>]
    ELSE [attributes |-> attributes, events |-> <<>>, cacheCalls |-> <<>>]

\* message_group_id and message_deduplication_id as callers pass them:
\* None (the default), an empty string, or an identifier
IdPairs == { <<"None", "None">>, <<"g1", "d1">>, <<"", "d1">>, <<"g1", "None">> }

\* the arguments of sns_client.publish
StandardRequest(topic_arn, message, message_attributes) ==
    [TopicArn |-> topic_arn, Message |-> message,
     MessageAttributes |-> message_attributes,
     MessageGroupId |-> "absent", MessageDeduplicationId |-> "absent"]

FifoRequest_swapped(topic_arn, message, message_group_id, message_deduplication_id, message_attributes) ==
    [TopicArn |-> topic_arn, Message |-> message,
     MessageAttributes |-> message_attributes,
     MessageGroupId |-> message_deduplication_id,
     MessageDeduplicationId |-> message_group_id]

FifoRequest(topic_arn, message, message_group_id, message_deduplication_id, message_attributes) ==
    [TopicArn |-> topic_arn, Message |-> message,
     MessageAttributes |-> message_attributes,
     MessageGroupId |-> message_group_id,
     MessageDeduplicationId |-> message_deduplication_id]

\* answers of the topic transport to a publish request: a message id, a
\* ClientError of the service, or the client's refusal of a None parameter
SnsOutcomes(req) ==
    IF "None" \in {req.MessageGroupId, req.MessageDeduplicationId}
    THEN {"ParamValidationError"}
    ELSE IF "" \in {req.MessageGroupId, req.MessageDeduplicationId}
    THEN {"ClientError"}
    ELSE {"ok", "ClientError"}

Returned(id) == [kind |-> "return_id", id |-> id]
ReturnedNone == [kind |-> "return_None", id |-> 0]
Raised(exc) == [kind |-> "raise_" \o exc, id |-> 0]

\* outcome of one publish call
Outcome(attributes, events, cacheCalls, snsCalls, snsOut, res) ==
    [attributes |-> attributes, events |-> events, cacheCalls |-> cacheCalls,
     snsCalls |-> snsCalls, snsOut |-> snsOut, result |-> res]

PublishOnClientError_reraised == Raised("ClientError")

\* a ClientError of the publish call is logged; the standard method then
\* returns None and the ordered method falls off its end
PublishOnClientError == ReturnedNone

\* the part of both pubsublib publish methods after the offload block
Dispatch(off, req, snsOut, msgId) ==
    IF validate_message_attributes(off.attributes)
    THEN LET ev == off.events \o <<"validate", "bind", "publish">> IN
         CASE snsOut = "ok" ->
                Outcome(off.attributes, ev, off.cacheCalls, <<req>>, snsOut,
                        Returned(msgId))
           [] snsOut = "ClientError" ->
                Outcome(off.attributes, ev, off.cacheCalls, <<req>>, snsOut,
                        PublishOnClientError)
           [] OTHER ->
                Outcome(off.attributes, ev, off.cacheCalls, <<req>>, snsOut,
                        Raised(snsOut))
    ELSE Outcome(off.attributes, off.events \o <<"validate">>, off.cacheCalls,
                 <<>>, "none", Raised("UnboundLocalError"))

CacheErrorLeaves_swallowed(message, cacheOk) == FALSE

\* cache_adapter.set is called for a large body only; an exception it raises
\* is not a ClientError, so no except clause of the publish methods takes it
CacheErrorLeaves(message, cacheOk) == is_large_message(message) /\ ~ cacheOk

\* pubsublib: __publish_message_standard_queue
publish_message_standard_queue(topic_arn, message, attributes, redis_key, cacheOk, snsOut, msgId) ==
    LET off == Offload(message, attributes, redis_key) IN
    IF CacheErrorLeaves(message, cacheOk)
    THEN Outcome(off.attributes, off.events, off.cacheCalls, <<>>, "none",
                 Raised("CacheError"))
    ELSE Dispatch(off,
                  StandardRequest(topic_arn, message,
                                  bind_attributes(off.attributes)),
                  snsOut, msgId)

\* pubsublib: __publish_message_fifo_queue
publish_message_fifo_queue(topic_arn, message, message_group_id, message_deduplication_id, attributes, redis_key, cacheOk, snsOut, msgId) ==
    LET off == Offload(message, attributes, redis_key) IN
    IF CacheErrorLeaves(message, cacheOk)
    THEN Outcome(off.attributes, off.events, off.cacheCalls, <<>>, "none",
                 Raised("CacheError"))
    ELSE Dispatch(off,
                  FifoRequest(topic_arn, message, message_group_id,
                              message_deduplication_id,
                              bind_attributes(off.attributes)),
                  snsOut, msgId)

\* pubsublib: publish_message
publish_message(topic_arn, message, attributes, is_fifo, message_group_id, message_deduplication_id, redis_key, cacheOk, snsOut, msgId) ==
    IF is_fifo
    THEN publish_message_fifo_queue(topic_arn, message, message_group_id,
                                    message_deduplication_id, attributes,
                                    redis_key, cacheOk, snsOut, msgId)
    ELSE publish_message_standard_queue(topic_arn, message, attributes,
                                        redis_key, cacheOk, snsOut, msgId)

\* orangehealth: publish_message and publish_message_fifo; both read the
\* local message_attributes before any assignment to it
OH_publish_message(topic_arn, message, attributes, redis_key, cacheOk) ==
    LET off == Offload(message, attributes, redis_key) IN
    IF CacheErrorLeaves(message, cacheOk)
    THEN Outcome(off.attributes, off.events, off.cacheCalls, <<>>, "none",
                 Raised("CacheError"))
    ELSE Outcome(off.attributes, off.events, off.cacheCalls, <<>>, "none",
                 Raised("UnboundLocalError"))

TopicArn == "arn:topic"

PubInit ==
    /\ call = [impl |-> "none", is_fifo |-> FALSE,
               message |-> [text |-> "", size |-> 0],
               attributes_in |-> [k \in {} |-> StrValue("")],
               message_group_id |-> "None",
               message_deduplication_id |-> "None",
               cache_ok |-> TRUE,
               out |-> Outcome([k \in {} |-> StrValue("")], <<>>, <<>>, <<>>, "none",
                               ReturnedNone)]
    /\ cacheLog = <<>>
    /\ uuidCount = 0
    /\ nextMsgId = 0
    /\ pubCount = 0

\* bookkeeping common to every publish call
Record(a, is_fifo, message, attributes, gid, did, cacheOk, out) ==
    /\ call' = [impl |-> a, is_fifo |-> is_fifo, message |-> message,
                attributes_in |-> attributes, message_group_id |-> gid,
                message_deduplication_id |-> did, cache_ok |-> cacheOk,
                out |-> out]
    /\ cacheLog' = cacheLog \o out.cacheCalls
    /\ uuidCount' = uuidCount + Len(out.cacheCalls)
    /\ nextMsgId' = IF out.snsOut = "ok" THEN nextMsgId + 1 ELSE nextMsgId
    /\ pubCount' = pubCount + 1
    /\ UNCHANGED <<pollVars, adminVars, codecVars>>

\* a caller publishes through the pubsublib adapter
Publish(message, attributes, is_fifo, gid, did, cacheOk, snsOut) ==
    /\ pubCount < MaxPublishes
    /\ LET out == publish_message(TopicArn, message, attributes, is_fifo,
                                  gid, did, Uuid4(uuidCount + 1), cacheOk,
                                  snsOut, nextMsgId + 1)
       IN /\ out.snsCalls # <<>> => snsOut \in SnsOutcomes(out.snsCalls[1])
          /\ out.snsCalls = <<>> => snsOut = "ok"
          /\ ~ is_large_message(message) => cacheOk
          /\ Record("pubsublib", is_fifo, message, attributes, gid, did, cacheOk,
                    [out EXCEPT !.snsOut =
                        IF out.snsCalls = <<>> THEN "none" ELSE snsOut])

\* a caller publishes through the orangehealth adapter
PublishOH(message, attributes, is_fifo, gid, did, cacheOk) ==
    /\ pubCount < MaxPublishes
    /\ ~ is_large_message(message) => cacheOk
    /\ Record("orangehealth", is_fifo, message, attributes, gid, did, cacheOk,
              OH_publish_message(TopicArn, message, attributes,
                                 Uuid4(uuidCount + 1), cacheOk))

NextPublish ==
    \/ \E message \in Bodies, attributes \in AttributeMappings,
          is_fifo \in BOOLEAN, ids \in IdPairs, cacheOk \in BOOLEAN,
          snsOut \in {"ok", "ClientError", "ParamValidationError"} :
          Publish(message, attributes, is_fifo, ids[1], ids[2], cacheOk, snsOut)
    \/ \E message \in Bodies, attributes \in AttributeMappings,
          is_fifo \in BOOLEAN, ids \in IdPairs, cacheOk \in BOOLEAN :
          PublishOH(message, attributes, is_fifo, ids[1], ids[2], cacheOk)

----------------------------------------------------------------------------
(* Topic and queue creation (pubsublib adapter) *)

\* names are sequences of characters
FifoSuffix == <<".", "f", "i", "f", "o">>

Orders == <<"o", "r", "d", "e", "r", "s">>

ResourceNames ==
    { Orders,                      \* orders
      Orders \o FifoSuffix,        \* orders.fifo
      FifoSuffix,                  \* .fifo
      <<"f", "i", "f", "o">>,      \* fifo
      FifoSuffix \o <<"x">> }      \* .fifox

endswith_anywhere(name, suffix) ==
    \E i \in 1..Len(name) :
        /\ i + Len(suffix) - 1 <= Len(name)
        /\ SubSeq(name, i, i + Len(suffix) - 1) = suffix

\* str.endswith
endswith(name, suffix) ==
    /\ Len(name) >= Len(suffix)
    /\ SubSeq(name, Len(name) - Len(suffix) + 1, Len(name)) = suffix

NoAttributes == [k \in {} |-> ""]

\* the arguments of a create call to the transport
CreateRequest(api, name, attributes) ==
    [api |-> api, Name |-> name, Attributes |-> attributes]

\* str(True) and str(False)
FifoTopicAttributes ==
    [FifoTopic |-> "True", ContentBasedDeduplication |-> "False"]

FifoQueueAttributes == [FifoQueue |-> "true"]

CreateOutcome(calls, transportOk, res) ==
    [calls |-> calls, transportOk |-> transportOk, result |-> res]

\* create_topic and __create_standard_queue: the client's response is a
\* dict, so reading topic.arn / queue.url for the log line raises
create_standard(api, name, transportOk) ==
    CreateOutcome(<<CreateRequest(api, name, NoAttributes)>>, transportOk,
                  IF transportOk THEN "raise_AttributeError"
                                 ELSE "raise_ClientError")

\* the body shared by create_topic_fifo and __create_fifo_queue
create_fifo(api, name, attributes, transportOk) ==
    IF endswith(name, FifoSuffix)
    THEN CreateOutcome(<<CreateRequest(api, name, attributes)>>, transportOk,
                       IF transportOk THEN "return_resource"
                                      ELSE "raise_ClientError")
    ELSE CreateOutcome(<<>>, TRUE, "return_None")

create_topic(topic_name, transportOk) ==
    create_standard("sns.create_topic", topic_name, transportOk)

create_topic_fifo(topic_name, transportOk) ==
    create_fifo("sns.create_topic", topic_name, FifoTopicAttributes, transportOk)

create_queue(name, is_fifo, transportOk) ==
    IF is_fifo
    THEN create_fifo("sqs.create_queue", name, FifoQueueAttributes, transportOk)
    ELSE create_standard("sqs.create_queue", name, transportOk)

AdminInit ==
    /\ admin = [op |-> "none", name |-> <<>>, is_fifo |-> FALSE,
                out |-> CreateOutcome(<<>>, TRUE, "none")]
    /\ resources = {}
    /\ adminCount = 0

\* bookkeeping common to every create call; the transport creates what a
\* successful call names
RecordCreate(op, name, is_fifo, out) ==
    /\ out.calls = <<>> => out.transportOk
    /\ admin' = [op |-> op, name |-> name, is_fifo |-> is_fifo, out |-> out]
    /\ resources' = IF out.calls # <<>> /\ out.transportOk
                    THEN resources \cup {out.calls[1]}
                    ELSE resources
    /\ adminCount' = adminCount + 1
    /\ UNCHANGED <<pollVars, pubVars, codecVars>>

CreateTopic(name, transportOk) ==
    /\ adminCount < MaxCreates
    /\ RecordCreate("create_topic", name, FALSE,
                    create_topic(name, transportOk))

CreateTopicFifo(name, transportOk) ==
    /\ adminCount < MaxCreates
    /\ RecordCreate("create_topic_fifo", name, TRUE,
                    create_topic_fifo(name, transportOk))

CreateQueue(name, is_fifo, transportOk) ==
    /\ adminCount < MaxCreates
    /\ RecordCreate("create_queue", name, is_fifo,
                    create_queue(name, is_fifo, transportOk))

NextCreate ==
    \/ \E name \in ResourceNames, ok \in BOOLEAN : CreateTopic(name, ok)
    \/ \E name \in ResourceNames, ok \in BOOLEAN : CreateTopicFifo(name, ok)
    \/ \E name \in ResourceNames, is_fifo \in BOOLEAN, ok \in BOOLEAN :
          CreateQueue(name, is_fifo, ok)

----------------------------------------------------------------------------
(* Codec: gzip and base64 over byte strings (sequences of 0..255) *)

ByteValues == {0, 97, 255}

ByteStrings == SeqsOver(ByteValues, MaxLen)

\* compresslevel values: stored, fastest, best
Levels == {0, 1, 9}

\* the clock value GzipFile writes into the header
Mtimes == {1, 1700000000}

Ok(bytes) == [ok |-> TRUE, bytes |-> bytes, error |-> "none"]
Err(e) == [ok |-> FALSE, bytes |-> <<>>, error |-> e]

LE16(n) == <<n % 256, (n \div 256) % 256>>

LE32(n) == <<n % 256, (n \div 256) % 256, (n \div 65536) % 256,
             (n \div 16777216) % 256>>

RECURSIVE SumBytes(_)
SumBytes(data) ==
    IF data = <<>> THEN 0 ELSE data[1] + SumBytes(Tail(data))

RECURSIVE SumOfSums(_)
SumOfSums(data) ==
    IF data = <<>> THEN 0
    ELSE 1 + SumBytes(data) + SumOfSums(SubSeq(data, 1, Len(data) - 1))

\* the four checksum bytes of the trailer; the two running sums modulo
\* 65521 stand for the CRC-32 the library computes
Checksum(data) ==
    LE16((1 + SumBytes(data)) % 65521) \o LE16(SumOfSums(data) % 65521)

\* ID1 ID2, CM = deflate, FLG = 0 (a BytesIO has no file name), MTIME, XFL, OS
GzipHeader(level, mtime) ==
    <<31, 139, 8, 0>> \o LE32(mtime)
    \o <<IF level = 9 THEN 2 ELSE IF level = 1 THEN 4 ELSE 0, 255>>

GzipTrailer(data) == Checksum(data) \o LE32(Len(data))

\* length of the run of equal bytes that starts data
RunOf(data) ==
    CHOOSE n \in 1..Len(data) :
        /\ \A i \in 1..n : data[i] = data[1]
        /\ n = Len(data) \/ n = 255 \/ data[n + 1] # data[1]

RECURSIVE RunLength(_)
RunLength(data) ==
    IF data = <<>> THEN <<0>>
    ELSE LET n == RunOf(data) IN
         <<n, data[1]>> \o RunLength(SubSeq(data, n + 1, Len(data)))

\* the deflate stream of one final block: stored (type 00) at level 0,
\* coded (type 01) otherwise; run-length pairs stand for the coded block
Deflate(data, level) ==
    IF level = 0
    THEN <<1>> \o LE16(Len(data)) \o LE16(65535 - Len(data)) \o data
    ELSE <<3>> \o RunLength(data)

Inflated(bytes, rest) == [ok |-> TRUE, bytes |-> bytes, rest |-> rest, error |-> "none"]
InflateError(e) == [ok |-> FALSE, bytes |-> <<>>, rest |-> <<>>, error |-> e]

RECURSIVE RunLengthDecode(_)
RunLengthDecode(body) ==
    IF body = <<>> THEN InflateError("EOFError")
    ELSE IF body[1] = 0 THEN Inflated(<<>>, Tail(body))
    ELSE IF Len(body) < 2 THEN InflateError("EOFError")
    ELSE LET r == RunLengthDecode(SubSeq(body, 3, Len(body))) IN
         IF r.ok
         THEN Inflated([i \in 1..body[1] |-> body[2]] \o r.bytes, r.rest)
         ELSE r

Inflate(body) ==
    IF body = <<>> THEN InflateError("EOFError")
    ELSE IF body[1] = 1
    THEN IF Len(body) < 5 THEN InflateError("EOFError")
         ELSE LET n == body[2] + 256 * body[3] IN
              IF LE16(65535 - n) # <<body[4], body[5]>>
              THEN InflateError("zlib.error")
              ELSE IF Len(body) < 5 + n THEN InflateError("EOFError")
              ELSE Inflated(SubSeq(body, 6, 5 + n),
                            SubSeq(body, 6 + n, Len(body)))
    ELSE IF body[1] = 3 THEN RunLengthDecode(Tail(body))
    ELSE InflateError("zlib.error")

\* getvalue() read before the GzipFile is closed: nothing is flushed yet
gzip_compress_unflushed(data, level, mtime) == GzipHeader(level, mtime)

\* GzipFile writes the header when opened, the deflate stream of the data,
\* and checksum and size when the with block closes it
gzip_compress(data, level, mtime) ==
    GzipHeader(level, mtime) \o Deflate(data, level) \o GzipTrailer(data)

\* GzipFile.read(): the members of the stream one after the other
RECURSIVE gzip_decompress(_)
gzip_decompress(data) ==
    IF data = <<>> THEN Ok(<<>>)
    ELSE IF Len(data) < 2 \/ SubSeq(data, 1, 2) # <<31, 139>>
    THEN Err("BadGzipFile")
    ELSE IF Len(data) < 10 THEN Err("EOFError")
    ELSE IF data[3] # 8 \/ data[4] # 0 THEN Err("BadGzipFile")
    ELSE LET r == Inflate(SubSeq(data, 11, Len(data))) IN
         IF ~ r.ok THEN Err(r.error)
         ELSE IF Len(r.rest) < 8 THEN Err("EOFError")
         ELSE IF SubSeq(r.rest, 1, 8) # GzipTrailer(r.bytes)
         THEN Err("BadGzipFile")
         ELSE LET more == gzip_decompress(SubSeq(r.rest, 9, Len(r.rest))) IN
              IF more.ok THEN Ok(r.bytes \o more.bytes) ELSE more

StandardAlphabet ==
    <<
       "A", "B", "C", "D", "E", "F", "G", "H", "I", "J", "K", "L", "M", "N", "O", "P",
       "Q", "R", "S", "T", "U", "V", "W", "X", "Y", "Z", "a", "b", "c", "d", "e", "f",
       "g", "h", "i", "j", "k", "l", "m", "n", "o", "p", "q", "r", "s", "t", "u", "v",
       "w", "x", "y", "z", "0", "1", "2", "3", "4", "5", "6", "7", "8", "9", "+", "/" >>

UrlSafeAlphabet ==
    <<
       "A", "B", "C", "D", "E", "F", "G", "H", "I", "J", "K", "L", "M", "N", "O", "P",
       "Q", "R", "S", "T", "U", "V", "W", "X", "Y", "Z", "a", "b", "c", "d", "e", "f",
       "g", "h", "i", "j", "k", "l", "m", "n", "o", "p", "q", "r", "s", "t", "u", "v",
       "w", "x", "y", "z", "0", "1", "2", "3", "4", "5", "6", "7", "8", "9", "-", "_" >>

Pad == "="

\* b2a_base64: three bytes make four characters, the last group is padded
RECURSIVE B64EncodeWith(_, _)
B64EncodeWith(alphabet, data) ==
    LET b(i) == IF i <= Len(data) THEN data[i] ELSE 0
        c1 == alphabet[(b(1) \div 4) + 1]
        c2 == alphabet[((b(1) % 4) * 16 + (b(2) \div 16)) + 1]
        c3 == alphabet[((b(2) % 16) * 4 + (b(3) \div 64)) + 1]
        c4 == alphabet[(b(3) % 64) + 1]
    IN
    CASE Len(data) = 0 -> <<>>
      [] Len(data) = 1 -> <<c1, c2, Pad, Pad>>
      [] Len(data) = 2 -> <<c1, c2, c3, Pad>>
      [] OTHER -> <<c1, c2, c3, c4>>
                  \o B64EncodeWith(alphabet, SubSeq(data, 4, Len(data)))

\* a2b_base64, not strict: characters outside the alphabet are skipped, a
\* complete pad sequence ends the input, an incomplete last group is an error
RECURSIVE B64DecodeFrom(_, _, _, _, _, _)
B64DecodeFrom(s, i, quad_pos, leftchar, pads, out) ==
    IF i > Len(s)
    THEN IF quad_pos # 0 THEN Err("binascii.Error") ELSE Ok(out)
    ELSE IF s[i] = Pad
    THEN IF quad_pos >= 2 /\ quad_pos + pads + 1 >= 4
         THEN Ok(out)
         ELSE B64DecodeFrom(s, i + 1, quad_pos, leftchar,
                            IF quad_pos >= 2 THEN pads + 1 ELSE pads, out)
    ELSE IF \A k \in 1..64 : StandardAlphabet[k] # s[i]
    THEN B64DecodeFrom(s, i + 1, quad_pos, leftchar, pads, out)
    ELSE LET this_ch == (CHOOSE k \in 1..64 : StandardAlphabet[k] = s[i]) - 1 IN
         CASE quad_pos = 0 ->
                B64DecodeFrom(s, i + 1, 1, this_ch, 0, out)
           [] quad_pos = 1 ->
                B64DecodeFrom(s, i + 1, 2, this_ch % 16, 0,
                              Append(out, leftchar * 4 + (this_ch \div 16)))
           [] quad_pos = 2 ->
                B64DecodeFrom(s, i + 1, 3, this_ch % 4, 0,
                              Append(out, leftchar * 16 + (this_ch \div 4)))
           [] OTHER ->
                B64DecodeFrom(s, i + 1, 0, 0, 0,
                              Append(out, leftchar * 64 + this_ch))

b64_encode_urlsafe(data) == B64EncodeWith(UrlSafeAlphabet, data)

\* base64.b64encode(data).decode('ascii'): the text is a sequence of characters
b64_encode(data) == B64EncodeWith(StandardAlphabet, data)

\* base64.b64decode(s)
b64_decode(s) == B64DecodeFrom(s, 1, 0, 0, 0, <<>>)

gzip_and_b64(data, level, mtime) == b64_encode(gzip_compress(data, level, mtime))

\* a result together with the codec functions that were called for it
WithCalls(res, calls) ==
    [ok |-> res.ok, bytes |-> res.bytes, error |-> res.error, calls |-> calls]

b64_decode_and_gunzip_if_sniffing(b64s, compressed) ==
    LET decoded == b64_decode(b64s) IN
    IF decoded.ok /\ Len(decoded.bytes) >= 2
       /\ SubSeq(decoded.bytes, 1, 2) = <<31, 139>>
    THEN WithCalls(gzip_decompress(decoded.bytes),
                   <<"b64_decode", "gzip_decompress">>)
    ELSE WithCalls(decoded, <<"b64_decode">>)

b64_decode_and_gunzip_if(b64s, compressed) ==
    LET decoded == b64_decode(b64s) IN
    IF ~ decoded.ok THEN WithCalls(decoded, <<"b64_decode">>)
    ELSE IF compressed
    THEN WithCalls(gzip_decompress(decoded.bytes),
                   <<"b64_decode", "gzip_decompress">>)
    ELSE WithCalls(decoded, <<"b64_decode">>)

NoCodecCall ==
    [op |-> "none", gzipped |-> FALSE, gz |-> <<>>, text |-> <<>>,
     compressed |-> FALSE, res |-> WithCalls(Ok(<<>>), <<>>)]

CodecCall(op, gzipped, gz, text, compressed, res) ==
    [op |-> op, gzipped |-> gzipped, gz |-> gz, text |-> text,
     compressed |-> compressed, res |-> res]

\* no codec call is made
CodecIdle == codec = [data |-> <<>>, level |-> 9, mtime |-> 1, out |-> NoCodecCall]

\* the arguments of a codec call, before it is made
CodecInputs ==
    codec \in [data : ByteStrings, level : Levels, mtime : Mtimes,
               out : {NoCodecCall}]

CodecApply(out) ==
    /\ codec' = [codec EXCEPT !.out = out]
    /\ UNCHANGED <<pollVars, pubVars, adminVars>>

\* gzip_decompress(gzip_compress(data, level))
GzipRoundTrip ==
    /\ codec.out.op = "none"
    /\ LET gz == gzip_compress(codec.data, codec.level, codec.mtime) IN
       CodecApply(CodecCall("gzip_round_trip", TRUE, gz, <<>>, TRUE,
                         WithCalls(gzip_decompress(gz),
                                   <<"gzip_compress", "gzip_decompress">>)))

\* b64_decode(b64_encode(data))
B64RoundTrip ==
    /\ codec.out.op = "none"
    /\ LET text == b64_encode(codec.data) IN
       CodecApply(CodecCall("b64_round_trip", FALSE, <<>>, text, FALSE,
                         WithCalls(b64_decode(text),
                                   <<"b64_encode", "b64_decode">>)))

\* b64_decode_and_gunzip_if applied to the text of the data, either
\* compressed by gzip_and_b64 or only encoded by b64_encode
DecodeAndGunzipIf(gzipped, compressed) ==
    /\ codec.out.op = "none"
    /\ LET gz == IF gzipped
                 THEN gzip_compress(codec.data, codec.level, codec.mtime)
                 ELSE codec.data
           text == IF gzipped
                   THEN gzip_and_b64(codec.data, codec.level, codec.mtime)
                   ELSE b64_encode(codec.data)
       IN CodecApply(CodecCall("b64_decode_and_gunzip_if", gzipped, gz, text,
                               compressed,
                               b64_decode_and_gunzip_if(text, compressed)))

NextCodec ==
    \/ GzipRoundTrip
    \/ B64RoundTrip
    \/ \E gzipped \in BOOLEAN, compressed \in BOOLEAN :
          DecodeAndGunzipIf(gzipped, compressed)

----------------------------------------------------------------------------
(* Specifications *)

Init == PollInit /\ PubInit /\ AdminInit /\ CodecIdle

Next ==
    \/ \E m \in Msgs : SendMessage(m)
    \/ \E m \in Msgs : VisibilityTimeout(m)
    \/ \E c \in Consumers, a \in Adapters, q \in QueueUrls : ReceiveMessage(c, a, q)
    \/ \E c \in Consumers : ProcessMessage(c)
    \/ \E c \in Consumers : DeleteMessage(c)

Spec == Init /\ [][Next]_vars

\* one response given to a poll of each adapter
NextBothAdapters ==
    \/ \E m \in Msgs : SendMessage(m)
    \/ \E q \in QueueUrls, ms \in DistinctSeqs(Msgs, MaxBatch),
          bad \in SUBSET Msgs : ReceiveSameResponse(q, ms, bad)
    \/ \E c \in Consumers : ProcessEither(c)
    \/ \E c \in Consumers : DeleteMessage(c)

SpecBothAdapters == Init /\ [][NextBothAdapters]_vars

\* the producer side
SpecPublish == Init /\ [][NextPublish]_vars

\* a process that uses the adapter either to consume or to publish; the two
\* sides share no state
NextTransport ==
    \/ PubInit /\ Next
    \/ PollInit /\ NextPublish

SpecTransport == Init /\ [][NextTransport]_vars

\* the codec functions applied to every input up to MaxLen bytes
InitCodec == PollInit /\ PubInit /\ AdminInit /\ CodecInputs

SpecCodec == InitCodec /\ [][NextCodec]_vars

\* creation of topics and queues
SpecCreate == Init /\ [][NextCreate]_vars

\* fair polling: a poller keeps polling and finishes the poll it started,
\* a visibility timeout elapses, and the transport eventually hands a message
\* that stays or keeps becoming visible to one of the pollers
ReceiveOf(m) ==
    \E c \in Consumers :
        /\ ReceiveMessage(c, "pubsublib", SubscribedQueue)
        /\ queue'[m].rc # queue[m].rc

Fairness ==
    /\ \A c \in Consumers : WF_vars(ProcessMessage(c))
    /\ \A c \in Consumers : WF_vars(DeleteMessage(c))
    /\ \A m \in Msgs : WF_vars(VisibilityTimeout(m))
    /\ \A m \in Msgs : SF_vars(ReceiveOf(m))

\* pubsublib consumers polling the subscribed queue
LiveNext ==
    \/ \E m \in Msgs : SendMessage(m)
    \/ \E m \in Msgs : VisibilityTimeout(m)
    \/ \E c \in Consumers : ReceiveMessage(c, "pubsublib", SubscribedQueue)
    \/ \E c \in Consumers : ProcessMessage(c)
    \/ \E c \in Consumers : DeleteMessage(c)

LiveSpec == Init /\ [][LiveNext]_vars /\ Fairness

----------------------------------------------------------------------------
(* Properties of the consumer side *)

Positions(tr) == 1..Len(tr)

\* the polls whose calls are on record: the running ones and the last ended
RunningPolls == {c \in Consumers : pc[c] # "idle"}

PubsublibTraces ==
    {trace[c] : c \in {d \in RunningPolls : impl[d] = "pubsublib"}}
    \cup (IF last.impl = "pubsublib" THEN {last.trace} ELSE {})

Verified(message) ==
    is_message_integrity_verified(message.Body, message.MD5OfBody)

EventsOf(tr, rh, kinds) ==
    {i \in Positions(tr) : tr[i].rh = rh /\ tr[i].ev \in kinds}

\* C1: in the pubsublib adapter every delete call is issued for a receipt
\* handle on which the handler was invoked in that delivery and returned
\* success; no delete follows a failure, an exception or no invocation.
C1_DeleteOnlyAfterSuccess ==
    \A tr \in PubsublibTraces : \A i \in Positions(tr) :
        tr[i].ev = "delete" =>
            /\ i > 1
            /\ tr[i - 1].ev = "handler"
            /\ tr[i - 1].rh = tr[i].rh
            /\ tr[i - 1].out = "True"

\* a poll of two messages ended: one was refused by the handler, the other
\* accepted and deleted
C1_Witness ==
    /\ last.impl = "pubsublib"
    /\ \E i, j \in Positions(last.trace) :
          /\ last.trace[i].ev = "delete"
          /\ last.trace[j].ev = "handler"
          /\ last.trace[j].out \in {"False", "None"}

\* the delete call that belongs to the handler's success at position i
DeletedOnceAt(tr, i, q) ==
    /\ i < Len(tr)
    /\ tr[i + 1] = Event("delete", tr[i].rh, q)
    /\ Cardinality(EventsOf(tr, tr[i].rh, {"delete"})) = 1

\* C2: in the pubsublib adapter, a received message whose checksum verifies
\* and whose handler returns success gets exactly one delete call, carrying
\* its own receipt handle and the polled queue URL.
C2_DeleteExactlyOnce ==
    /\ \A c \in RunningPolls : impl[c] = "pubsublib" =>
          \A i \in Positions(trace[c]) :
             (trace[c][i].ev = "handler" /\ trace[c][i].out = "True") =>
                \/ i = Len(trace[c]) /\ pc[c] = "delete"
                \/ DeletedOnceAt(trace[c], i, url[c])
    /\ last.impl = "pubsublib" =>
          \A i \in Positions(last.trace) :
             (last.trace[i].ev = "handler" /\ last.trace[i].out = "True") =>
                DeletedOnceAt(last.trace, i, last.url)

\* a poll ended in which two messages were accepted and each deleted
C2_Witness ==
    /\ last.impl = "pubsublib"
    /\ last.result = "ret_response"
    /\ Len(last.batch) = 2
    /\ \A k \in 1..2 :
          Cardinality(EventsOf(last.trace, last.batch[k].ReceiptHandle,
                               {"delete"})) = 1

\* C3: in the pubsublib adapter a message whose recomputed checksum differs
\* from MD5OfBody is never passed to the handler and never deleted, and the
\* poll that reaches it fails with the integrity error; no poll that
\* received such a message returns normally.
C3_CorruptedNeverHandled ==
    /\ \A c \in RunningPolls : impl[c] = "pubsublib" =>
          \A k \in 1..Len(batch[c]) : ~ Verified(batch[c][k]) =>
             EventsOf(trace[c], batch[c][k].ReceiptHandle,
                      {"check", "handler", "delete"}) = {}
    /\ last.impl = "pubsublib" =>
          \A k \in 1..Len(last.batch) : ~ Verified(last.batch[k]) =>
             /\ EventsOf(last.trace, last.batch[k].ReceiptHandle,
                         {"handler", "delete"}) = {}
             /\ last.result # "ret_response"
             /\ EventsOf(last.trace, last.batch[k].ReceiptHandle, {"check"}) # {}
                   => last.result = "exc_ValueError"

\* a poll accepted and deleted its first message and failed on the
\* corrupted second one
C3_Witness ==
    /\ last.impl = "pubsublib"
    /\ last.result = "exc_ValueError"
    /\ Len(last.batch) = 2
    /\ ~ Verified(last.batch[2])
    /\ EventsOf(last.trace, last.batch[1].ReceiptHandle, {"delete"}) # {}

\* C4: in both adapters a poll whose receive response contains no messages
\* returns normally, without a handler invocation and without a delete call.
C4_EmptyPollReturns ==
    (/\ last.result \notin {"none", "exc_ClientError"}
     /\ last.batch = <<>>)
        => /\ last.result \in {"ret_response", "ret_message"}
           /\ Len(last.trace) = 1

InQueue(m) == queue[m].st \in {"visible", "inflight"}

\* C5: a message that is in the queue, in particular one that a poll
\* received and left unacknowledged, is delivered again after its visibility
\* timeout and, under fair polling and a handler that eventually succeeds,
\* is eventually acknowledged (deleted).
C5_EventuallyAcknowledged ==
    \A m \in Msgs : InQueue(m) ~> (queue[m].st = "deleted")

\* a message was delivered a second time, accepted and deleted
C5_Witness ==
    \E m \in Msgs :
        /\ queue[m].st = "deleted"
        /\ queue[m].rc >= 2
        /\ \E i \in Positions(last.trace) :
              last.trace[i] = Event("delete", ReceiptHandleOf(m, queue[m].rc),
                                    last.url)

----------------------------------------------------------------------------
(* Properties of the producer side *)

CallMade == call.impl # "none"

AllStrOrBinary(attributes) ==
    \A k \in DOMAIN attributes : attributes[k].type \in {"str", "bytes"}

LargeBody == call.message.size > 204800

\* an ordered-mode call names both identifiers; a standard call needs none
IdsPresent ==
    call.is_fifo => /\ call.message_group_id \notin {"None", ""}
                    /\ call.message_deduplication_id \notin {"None", ""}

CacheFailed == call.out.result.kind = "raise_CacheError"

\* the transport assigned a message id and the call returned it
ReturnsAssignedId ==
    call.out.snsOut = "ok" => call.out.result = Returned(nextMsgId)

\* C6: in both adapters, publishing a body that is not large with attributes
\* that are all string or binary runs validate, bind and one transport
\* publish call, in that order, and returns the assigned MessageId.
C6_ValidateBindPublish ==
    (CallMade /\ ~ LargeBody /\ AllStrOrBinary(call.attributes_in) /\ IdsPresent)
        => /\ call.out.events = <<"validate", "bind", "publish">>
           /\ Len(call.out.snsCalls) = 1
           /\ ReturnsAssignedId

\* C7: publishing a large body through the pubsublib adapter with otherwise
\* valid attributes injects the key under redis_key, passes validation and
\* bind, issues one publish call with the original body and the redis_key
\* attribute, and returns the assigned message id.
C7_LargeBodyPublished ==
    (/\ call.impl = "pubsublib"
     /\ LargeBody
     /\ AllStrOrBinary(call.attributes_in)
     /\ IdsPresent
     /\ ~ CacheFailed)
        => /\ "redis_key" \in DOMAIN call.out.attributes
           /\ call.out.events = <<"uuid4", "inject", "cache.set",
                                  "validate", "bind", "publish">>
           /\ Len(call.out.snsCalls) = 1
           /\ call.out.snsCalls[1].Message = call.message
           /\ "redis_key" \in DOMAIN call.out.snsCalls[1].MessageAttributes
           /\ ReturnsAssignedId

\* C8: publish_message calls the cache adapter's set exactly when the body
\* is larger than 200 KB: then once, with a key no earlier call used, the
\* original body and a TTL of 14400 minutes, and the same key is stored
\* under redis_key; a body of 200 KB or less causes no cache call.
C8_OffloadExactlyWhenLarge ==
    call.impl = "pubsublib" =>
        IF LargeBody
        THEN /\ Len(call.out.cacheCalls) = 1
             /\ call.out.cacheCalls[1].value = call.message
             /\ call.out.cacheCalls[1].ttl = 14400
             /\ "redis_key" \in DOMAIN call.out.attributes
             /\ call.out.attributes["redis_key"].v = call.out.cacheCalls[1].key
             /\ cacheLog # <<>>
             /\ cacheLog[Len(cacheLog)] = call.out.cacheCalls[1]
             /\ \A i \in 1..(Len(cacheLog) - 1) :
                   cacheLog[i].key # call.out.cacheCalls[1].key
        ELSE /\ call.out.cacheCalls = <<>>
             /\ DOMAIN call.out.attributes = DOMAIN call.attributes_in

\* a body of 200 KB + 1 byte is published after an earlier offload
C8_Witness ==
    /\ call.impl = "pubsublib"
    /\ call.message.size = 204801
    /\ Len(cacheLog) = 2

\* C9: publish_message with an attribute value that is neither string nor
\* binary issues no transport publish call and fails with ValidationError.
C9_InvalidAttributesRejected ==
    (/\ call.impl = "pubsublib"
     /\ ~ AllStrOrBinary(call.attributes_in)
     /\ ~ CacheFailed)
        => /\ call.out.snsCalls = <<>>
           /\ call.out.result.kind = "raise_ValidationError"

\* C10: publish_message with is_fifo = true and a missing message_group_id
\* or message_deduplication_id fails with ConfigurationError and issues no
\* transport publish call.
C10_FifoRequiresIds ==
    (/\ call.impl = "pubsublib"
     /\ call.is_fifo
     /\ ~ IdsPresent
     /\ AllStrOrBinary(call.attributes_in)
     /\ ~ LargeBody)
        => /\ call.out.result.kind = "raise_ConfigurationError"
           /\ call.out.snsCalls = <<>>

----------------------------------------------------------------------------
(* Properties of topic and queue creation *)

OrderedCreate ==
    \/ admin.op = "create_topic_fifo"
    \/ admin.op = "create_queue" /\ admin.is_fifo

HasFifoSuffix(name) ==
    /\ Len(name) >= 5
    /\ \A i \in 1..5 : name[Len(name) - 5 + i] = FifoSuffix[i]

FifoFlagSet(req) ==
    \/ req.api = "sns.create_topic"
       /\ "FifoTopic" \in DOMAIN req.Attributes
       /\ req.Attributes["FifoTopic"] = "True"
    \/ req.api = "sqs.create_queue"
       /\ "FifoQueue" \in DOMAIN req.Attributes
       /\ req.Attributes["FifoQueue"] = "true"

\* C11: creating an ordered-mode topic or queue whose name does not end
\* with .fifo returns a null result, raises nothing and never calls the
\* transport's create operation; with a conforming name the create operation
\* is called exactly once, for that name, with the FIFO attribute set.
C11_FifoNameSoftFail ==
    OrderedCreate =>
        IF HasFifoSuffix(admin.name)
        THEN /\ Len(admin.out.calls) = 1
             /\ admin.out.calls[1].Name = admin.name
             /\ FifoFlagSet(admin.out.calls[1])
             /\ admin.out.calls[1].api =
                   (IF admin.op = "create_topic_fifo" THEN "sns.create_topic"
                                                      ELSE "sqs.create_queue")
        ELSE /\ admin.out.calls = <<>>
             /\ admin.out.result = "return_None"

\* an ordered-mode queue named .fifox is refused after an ordered-mode
\* topic with a conforming name was created
C11_Witness ==
    /\ admin.op = "create_queue"
    /\ admin.is_fifo
    /\ admin.name = FifoSuffix \o <<"x">>
    /\ admin.out.result = "return_None"
    /\ \E r \in resources : r.api = "sns.create_topic" /\ FifoFlagSet(r)

----------------------------------------------------------------------------
(* Properties of failures and of the order of the calls *)

ClientErrorIn(tr) ==
    \E i \in 1..Len(tr) : tr[i].ev = "raised" /\ tr[i].out = "ClientError"

\* a ClientError of the receive or delete call of a pubsublib poll ends the
\* poll with that exception
PollReraises ==
    /\ \A c \in Consumers : ~ ClientErrorIn(trace[c])
    /\ (last.impl = "pubsublib" /\ ClientErrorIn(last.trace))
          => last.result = "exc_ClientError"

PublishFailed == call.impl = "pubsublib" /\ call.out.snsOut = "ClientError"

\* C12 as stated: every ClientError raised during publish_message's dispatch
\* or during a poll's receive or delete call is raised again to the caller
\* and never becomes a normal return value.
C12_ClientErrorReraised ==
    /\ PollReraises
    /\ PublishFailed => call.out.result.kind = "raise_ClientError"

\* C12, amended: a ClientError of a poll's receive or delete call is raised
\* again to the caller; a ClientError of publish_message's transport call is
\* logged and the call returns None.
C12_PollReraisesPublishReturnsNone ==
    /\ PollReraises
    /\ PublishFailed => call.out.result = ReturnedNone

\* a poll ended by a ClientError of its delete call
C12_WitnessPoll ==
    /\ last.impl = "pubsublib"
    /\ Len(last.trace) > 2
    /\ ClientErrorIn(last.trace)
    /\ last.result = "exc_ClientError"

\* a publish whose transport call raised ClientError
C12_Witness ==
    /\ PublishFailed
    /\ Len(call.out.snsCalls) = 1
    /\ ~ call.is_fifo

HandlerRaisedAt(tr, i) == tr[i].ev = "handler" /\ tr[i].out = "raise"

\* C13: when the handler raises in a pubsublib poll, no delete call is made
\* for that message's receipt handle and the exception ends the poll and
\* reaches the caller; it never becomes an acknowledgement or a normal return.
C13_HandlerExceptionPropagates ==
    /\ \A c \in Consumers :
          \A i \in 1..Len(trace[c]) : ~ HandlerRaisedAt(trace[c], i)
    /\ last.impl = "pubsublib" =>
          \A i \in 1..Len(last.trace) :
             HandlerRaisedAt(last.trace, i) =>
                /\ i = Len(last.trace)
                /\ last.result = "exc_Handler"
                /\ EventsOf(last.trace, last.trace[i].rh, {"delete"}) = {}

\* the handler raised on the second message of a batch whose first message
\* was acknowledged
C13_Witness ==
    /\ last.impl = "pubsublib"
    /\ Len(last.batch) = 2
    /\ HandlerRaisedAt(last.trace, Len(last.trace))
    /\ last.trace[Len(last.trace)].rh = last.batch[2].ReceiptHandle
    /\ EventsOf(last.trace, last.batch[1].ReceiptHandle, {"delete"}) # {}

CacheSetFailed ==
    /\ call.impl = "pubsublib"
    /\ call.message.size > LargeMessageThreshold
    /\ ~ call.cache_ok

\* C14: when the cache adapter's set fails while a large body is published,
\* publish_message fails with that error and issues no transport publish
\* call; the failure never becomes a normal or null return.
C14_CacheFailureAborts ==
    CacheSetFailed =>
        /\ call.out.result.kind = "raise_CacheError"
        /\ call.out.snsCalls = <<>>
        /\ Len(call.out.cacheCalls) = 1

\* an ordered-mode publish of a large body whose cache write failed
C14_Witness ==
    /\ CacheSetFailed
    /\ call.is_fifo
    /\ call.message_group_id = "g1"

----------------------------------------------------------------------------
(* Properties of the codec *)

Returns(bytes) == codec.out.res.ok /\ codec.out.res.bytes = bytes

\* C15: for every byte string B and every compression level,
\* gzip_decompress(gzip_compress(B, level)) is B, and
\* b64_decode_and_gunzip_if(gzip_and_b64(B, level), true) is B.
C15_GzipRoundTrip ==
    /\ codec.out.op = "gzip_round_trip" => Returns(codec.data)
    /\ (/\ codec.out.op = "b64_decode_and_gunzip_if"
        /\ codec.out.gzipped
        /\ codec.out.compressed) => Returns(codec.data)

\* three bytes with a run, compressed at level 1, encoded, decoded and
\* decompressed
C15_Witness ==
    /\ codec.out.op = "b64_decode_and_gunzip_if"
    /\ codec.out.gzipped
    /\ codec.out.compressed
    /\ codec.level = 1
    /\ codec.data = <<97, 97, 255>>
    /\ Len(codec.out.text) > 24

\* C16: for every byte string B, b64_decode(b64_encode(B)) is B.
C16_Base64RoundTrip ==
    codec.out.op = "b64_round_trip" => Returns(codec.data)

\* two bytes, so that the text is padded, with a character of the alphabet's
\* last two places
C16_Witness ==
    /\ codec.out.op = "b64_round_trip"
    /\ codec.data = <<255, 255>>
    /\ codec.out.text = <<"/", "/", "8", "=">>

\* C17: b64_decode_and_gunzip_if(s, false) never calls gzip_decompress and
\* returns exactly b64_decode(s), also when the decoded bytes are valid gzip
\* data.
C17_FlagFalseSkipsGunzip ==
    (codec.out.op = "b64_decode_and_gunzip_if" /\ ~ codec.out.compressed) =>
        /\ \A i \in 1..Len(codec.out.res.calls) :
              codec.out.res.calls[i] # "gzip_decompress"
        /\ Returns(codec.out.gz)
        /\ Ok(codec.out.res.bytes) = b64_decode(codec.out.text)

\* the text of valid gzip data decoded with the flag false: the gzip bytes
\* come back as they are
C17_Witness ==
    /\ codec.out.op = "b64_decode_and_gunzip_if"
    /\ ~ codec.out.compressed
    /\ codec.out.gzipped
    /\ codec.data = <<0, 97>>
    /\ SubSeq(codec.out.res.bytes, 1, 2) = <<31, 139>>
    /\ gzip_decompress(codec.out.res.bytes) = Ok(codec.data)

----------------------------------------------------------------------------
(* Properties of the order and number of the calls of one poll *)

\* place of a receipt handle in the response of the receive call
PlaceOf(b, rh) == CHOOSE k \in 1..Len(b) : b[k].ReceiptHandle = rh

StepRank(ev) ==
    CASE ev = "check" -> 1
      [] ev = "handler" -> 2
      [] ev = "delete" -> 3
      [] OTHER -> 4

ChecksOf(tr) == {i \in 1..Len(tr) : tr[i].ev = "check"}

\* the events of a poll after the receive call follow the response: first
\* all steps of message 1 in the order check, handler, delete, then all
\* steps of message 2, and so on without leaving a message out
InResponseOrder(tr, b) ==
    /\ \A p \in 2..Len(tr) :
          \E k \in 1..Len(b) : b[k].ReceiptHandle = tr[p].rh
    /\ \A p, q \in 2..Len(tr) :
          p < q =>
             \/ PlaceOf(b, tr[p].rh) < PlaceOf(b, tr[q].rh)
             \/ /\ tr[p].rh = tr[q].rh
                /\ StepRank(tr[p].ev) < StepRank(tr[q].ev)
    /\ \A i \in ChecksOf(tr) :
          PlaceOf(b, tr[i].rh) = Cardinality({j \in ChecksOf(tr) : j <= i})

\* a poll that did not end in its receive call
PastReceive(tr) == Len(tr) > 0 /\ (Len(tr) > 1 => tr[2].ev # "raised")

\* C18: within one pubsublib poll the messages are processed strictly in
\* the order of the receive response: integrity check, handler invocation
\* and delete of message i all come before the integrity check of message
\* i+1.
C18_ProcessedInResponseOrder ==
    /\ \A c \in Consumers :
          impl[c] = "pubsublib" => InResponseOrder(trace[c], batch[c])
    /\ (last.impl = "pubsublib" /\ PastReceive(last.trace))
          => InResponseOrder(last.trace, last.batch)

\* a poll of two messages, both checked, handled and deleted
C18_Witness ==
    /\ last.impl = "pubsublib"
    /\ Len(last.batch) = 2
    /\ Len(last.trace) = 7
    /\ last.trace[4].ev = "delete"
    /\ last.trace[5].ev = "check"
    /\ last.trace[5].rh = last.batch[2].ReceiptHandle

ReceivesOf(tr) == {i \in 1..Len(tr) : tr[i].ev = "receive"}

OneReceiveHandlerOnce(tr) ==
    /\ ReceivesOf(tr) = {1}
    /\ \A i, j \in 1..Len(tr) :
          (tr[i].ev = "handler" /\ tr[j].ev = "handler" /\ tr[i].rh = tr[j].rh)
             => i = j

\* C19: one call of poll_message_from_queue issues exactly one receive call
\* and invokes the handler at most once for each received message; a
\* failure of the handler is not retried inside the poll.
C19_OneReceiveNoRetry ==
    /\ \A c \in Consumers : pc[c] # "idle" => OneReceiveHandlerOnce(trace[c])
    /\ last.impl # "none" => OneReceiveHandlerOnce(last.trace)

\* a poll of two messages whose handler failed on the first and was then
\* invoked on the second
C19_Witness ==
    /\ last.impl = "pubsublib"
    /\ Len(last.batch) = 2
    /\ \E i \in 1..Len(last.trace) :
          /\ last.trace[i].ev = "handler"
          /\ last.trace[i].rh = last.batch[1].ReceiptHandle
          /\ last.trace[i].out = "False"
    /\ \E i \in 1..Len(last.trace) :
          /\ last.trace[i].ev = "handler"
          /\ last.trace[i].rh = last.batch[2].ReceiptHandle

----------------------------------------------------------------------------
(* Properties of the publish request *)

PublishRequested == call.impl = "pubsublib" /\ call.out.snsCalls # <<>>

\* C20: publish_message dispatches with the parameters of the mode: with
\* is_fifo false the transport publish call carries no message group id and
\* no deduplication id, also when the caller supplied them; with is_fifo
\* true it carries exactly the caller's two identifiers.
C20_ModeAppropriateIds ==
    PublishRequested =>
        /\ Len(call.out.snsCalls) = 1
        /\ IF call.is_fifo
           THEN /\ call.out.snsCalls[1].MessageGroupId = call.message_group_id
                /\ call.out.snsCalls[1].MessageDeduplicationId =
                      call.message_deduplication_id
           ELSE /\ call.out.snsCalls[1].MessageGroupId = "absent"
                /\ call.out.snsCalls[1].MessageDeduplicationId = "absent"

\* a standard-mode publish to which the caller supplied both identifiers
C20_Witness ==
    /\ PublishRequested
    /\ ~ call.is_fifo
    /\ call.message_group_id = "g1"
    /\ call.message_deduplication_id = "d1"
    /\ call.out.snsOut = "ok"

\* an ordered-mode publish carrying the caller's identifiers
C20_WitnessFifo ==
    /\ PublishRequested
    /\ call.is_fifo
    /\ call.out.snsCalls[1].MessageGroupId = "g1"
    /\ call.out.snsCalls[1].MessageDeduplicationId = "d1"

----------------------------------------------------------------------------
(* Properties of a poll that meets a corrupted message *)

\* the handler accepted the message in this poll
AcceptedIn(tr, rh) ==
    \E i \in 1..Len(tr) :
        tr[i].ev = "handler" /\ tr[i].rh = rh /\ tr[i].out = "True"

\* the delete call made with a receipt handle that is still the current one
\* of its message took effect and the message is gone
StaysDeleted(rh) == queue[rh.m].rc = rh.n => queue[rh.m].st = "deleted"

\* the poll stopped at the integrity check of message k of its response
AbortedAt(tr, b, k) ==
    /\ ~ Verified(b[k])
    /\ tr[Len(tr)] = Event("check", b[k].ReceiptHandle, "")
    /\ \A j \in 1..(k - 1) :
          /\ Verified(b[j])
          /\ Cardinality(EventsOf(tr, b[j].ReceiptHandle, {"handler"})) = 1
          /\ AcceptedIn(tr, b[j].ReceiptHandle) =>
                /\ EventsOf(tr, b[j].ReceiptHandle, {"delete"}) # {}
                /\ StaysDeleted(b[j].ReceiptHandle)
    /\ \A j \in k..Len(b) :
          EventsOf(tr, b[j].ReceiptHandle, {"handler", "delete"}) = {}
    /\ \A j \in (k + 1)..Len(b) :
          EventsOf(tr, b[j].ReceiptHandle, {"check"}) = {}

CheckedCorrupted(tr, b) ==
    \E k \in 1..Len(b) :
        /\ ~ Verified(b[k])
        /\ EventsOf(tr, b[k].ReceiptHandle, {"check"}) # {}

\* C21: in the pubsublib adapter an integrity failure on message k of a
\* batch ends the whole poll at k: the messages before k that the handler
\* accepted have been deleted and stay deleted, no message at position k or
\* later is passed to the handler or deleted in that poll, and the poll ends
\* with the ValueError instead of returning a batch.
C21_IntegrityFailureAbortsPoll ==
    /\ \A c \in RunningPolls :
          impl[c] = "pubsublib" => ~ CheckedCorrupted(trace[c], batch[c])
    /\ (last.impl = "pubsublib" /\ CheckedCorrupted(last.trace, last.batch))
          => last.result = "exc_ValueError"
    /\ (last.impl = "pubsublib" /\ last.result = "exc_ValueError")
          => \E k \in 1..Len(last.batch) :
                AbortedAt(last.trace, last.batch, k)

\* the second message of a batch is corrupted; the first was accepted and
\* its delete took effect
C21_Witness ==
    /\ last.impl = "pubsublib"
    /\ last.result = "exc_ValueError"
    /\ Len(last.batch) = 2
    /\ AbortedAt(last.trace, last.batch, 2)
    /\ AcceptedIn(last.trace, last.batch[1].ReceiptHandle)
    /\ queue[last.batch[1].MessageId].st = "deleted"
    /\ queue[last.batch[2].MessageId].st # "deleted"

\* the first message of a batch of two is corrupted: the second is not
\* touched
C21_WitnessFirst ==
    /\ last.impl = "pubsublib"
    /\ Len(last.batch) = 2
    /\ AbortedAt(last.trace, last.batch, 1)
    /\ Len(last.trace) = 2

----------------------------------------------------------------------------
(* The two adapters on one response *)

IsHandlerCall(e) == e.ev = "handler"

IsDeleteCall(e) == e.ev = "delete"

\* the messages the handler was invoked on, in order
HandlerCalls(tr) ==
    LET calls == SelectSeq(tr, IsHandlerCall)
    IN [i \in 1..Len(calls) |-> calls[i].rh]

\* the delete calls with their arguments, in order
DeleteCalls(tr) == SelectSeq(tr, IsDeleteCall)

AllVerified(b) == \A k \in 1..Len(b) : Verified(b[k])

\* the handler did the same on every message both polls gave it
SameHandler(t1, t2) ==
    \A i \in 1..Len(t1), j \in 1..Len(t2) :
        (IsHandlerCall(t1[i]) /\ IsHandlerCall(t2[j]) /\ t1[i].rh = t2[j].rh)
           => t1[i].out = t2[j].out

\* two ended polls, one of each adapter, of the same queue that were given
\* the same non-empty response of valid messages, the same handler and a
\* transport that did not fail
ComparablePolls(p1, p2) ==
    /\ p1.impl # "none" /\ p2.impl # "none" /\ p1.impl # p2.impl
    /\ p1.url = p2.url
    /\ p1.batch = p2.batch
    /\ Len(p1.batch) > 0
    /\ AllVerified(p1.batch)
    /\ SameHandler(p1.trace, p2.trace)
    /\ ~ ClientErrorIn(p1.trace) /\ ~ ClientErrorIn(p2.trace)

SameCalls(p1, p2) ==
    /\ HandlerCalls(p1.trace) = HandlerCalls(p2.trace)
    /\ DeleteCalls(p1.trace) = DeleteCalls(p2.trace)

\* C22: given the same non-empty receive response in which every checksum
\* is valid, and the same handler, the polls of the pubsublib adapter and of
\* the orangehealth adapter invoke the handler on the same messages in the
\* same order and issue the same sequence of delete calls. Stated on the step
\* at which the second of the two polls ends.
C22_AdaptersAgree ==
    [][ComparablePolls(last, last') => SameCalls(last, last')]_vars

\* both polls of a response of two valid messages have ended; the handler
\* refused the first message and accepted the second
C22_Witness ==
    /\ \A c \in Consumers : pc[c] = "idle"
    /\ last.impl = "orangehealth"
    /\ last.result = "ret_message"
    /\ Len(last.batch) = 2
    /\ AllVerified(last.batch)
    /\ HandlerCalls(last.trace) =
          <<last.batch[1].ReceiptHandle, last.batch[2].ReceiptHandle>>
    /\ ~ AcceptedIn(last.trace, last.batch[1].ReceiptHandle)
    /\ DeleteCalls(last.trace) =
          <<Event("delete", last.batch[2].ReceiptHandle, last.url)>>
    /\ queue[last.batch[2].MessageId].st = "deleted"

====
